---- MODULE Spec2Model ----
(***************************************************************************)
(* A model of DataStructures::AVLTree<T> (src/AVLTree.h) with T = int.     *)
(*                                                                         *)
(* The heap is a function from the addresses of the live nodes to their    *)
(* fields; NULL is the null pointer.  A public member function is one      *)
(* action; the private helpers are operators on a tree record              *)
(*   [n |-> heap, r |-> m_root, ub |-> a null pointer was dereferenced,    *)
(*    size |-> m_size, walk |-> what the call has done so far].            *)
(* leafRemove, oneSubtreeRemove and twoSubtreeRemove are declared in the   *)
(* header but their bodies are not part of it; they follow section 4.3 of  *)
(* the specification.                                                      *)
(***************************************************************************)
EXTENDS Integers, Sequences, FiniteSets

\* ------------------------------------------------------------------ bounds

\* number of distinct values the callers draw from
MaxVal == 4

\* std::size_t is modelled SizeWidth bits wide
SizeWidth == 8

\* how many times the tree may be filled from empty
MaxFills == 1

SizeModulus == 2 ^ SizeWidth

\* the values passed to insert / remove / find
Values == {10 * i : i \in 1..MaxVal}

\* the values of the ascending-insert scenarios
ScenarioValues == (1..7) \cup {10, 20, 30}

NULL == 0

VARIABLES
    nodes,            \* the heap: address -> Node
    m_root,           \* AVLTree::m_root
    m_size,           \* AVLTree::m_size
    ret,              \* what the last call returned (or that it threw)
    usePredecessor,   \* twoSubtreeRemove's convention, fixed at construction
    abs,              \* the abstract set driven by the same calls
    ub,               \* a null pointer has been dereferenced
    observing,        \* whether the walk of the last call is kept, fixed at construction
    walk,             \* the rebalancing walk of the last call, when observing
    dtor              \* what the destructor has done

vars == <<nodes, m_root, m_size, ret, usePredecessor, abs, ub, observing, walk, dtor>>

\* ------------------------------------------------------------------ Node

\* Node(i_value): parent, left, right null, height 0, balanceFactor 0
Node(i_value) ==
    [value |-> i_value, parent |-> NULL, left |-> NULL, right |-> NULL,
     height |-> 0, balanceFactor |-> 0]

\* the address operator new hands out: the lowest address not in use
NewAddr(n) ==
    CHOOSE a \in 1..(Cardinality(DOMAIN n) + 1) :
        /\ a \notin DOMAIN n
        /\ \A b \in 1..(Cardinality(DOMAIN n) + 1) : b \notin DOMAIN n => a <= b

\* new Node{value}
New(n, value) ==
    [a \in DOMAIN n \cup {NewAddr(n)} |-> IF a \in DOMAIN n THEN n[a] ELSE Node(value)]

\* delete node
Delete(n, x) ==
    [a \in DOMAIN n \ {x} |-> n[a]]

\* what the calls return
RetNone == [kind |-> "none", val |-> 0]
RetNullptr == [kind |-> "nullptr", val |-> 0]
RetPtr(x) == IF x = NULL THEN RetNullptr ELSE [kind |-> "ptr", val |-> x]
RetValue(v) == [kind |-> "value", val |-> v]
RetThrow == [kind |-> "throw", val |-> 0]
RetSize(s) == [kind |-> "size", val |-> s]
RetBool(b) == [kind |-> "bool", val |-> IF b THEN 1 ELSE 0]

\* ------------------------------------------------------------------ the walk

\* one step of a call, as it is written down in the walk:
\*   "visit"   unstackNodes has updated and balanced node: its stored height
\*             before, the balance factor update computed, the node on top of
\*             its subtree afterwards, that node's parent and stored height
\*   "rotate"  a rotation of node was asked for; ok: node had the pivot child
\*   "copy"    twoSubtreeRemove has copied the value of top into node, whose
\*             parent is topParent: the value before and after
Event(ev, node, before, bf, after, top, topParent, ok) ==
    [ev |-> ev, node |-> node, before |-> before, bf |-> bf, after |-> after,
     top |-> top, topParent |-> topParent, ok |-> ok]

RotateEvent(A, ok) == Event("rotate", A, 0, 0, 0, 0, 0, ok)

Logged(T, event) == [T EXCEPT !.walk = Append(@, event)]

\* ------------------------------------------------------------------ update

\* update without the assignment of balanceFactor
updateHeightOnly(T, node) ==
    IF node = NULL THEN T
    ELSE
        LET n == T.n
            leftHeight == IF n[node].left # NULL THEN n[n[node].left].height ELSE -1
            rightHeight == IF n[node].right # NULL THEN n[n[node].right].height ELSE -1
            h == IF rightHeight >= leftHeight THEN rightHeight + 1 ELSE leftHeight + 1
        IN [T EXCEPT !.n = [n EXCEPT ![node].height = h]]

update(T, node) ==
    IF node = NULL THEN T
    ELSE
        LET n == T.n
            leftHeight == IF n[node].left # NULL THEN n[n[node].left].height ELSE -1
            rightHeight == IF n[node].right # NULL THEN n[n[node].right].height ELSE -1
            h == IF rightHeight >= leftHeight THEN rightHeight + 1 ELSE leftHeight + 1
        IN [T EXCEPT !.n = [n EXCEPT ![node].height = h,
                                     ![node].balanceFactor =
                                         (rightHeight + 1) - (leftHeight + 1)]]

\* ------------------------------------------------------------------ rotations

\* rightRotation that leaves A's parent as it was
rightRotationStaleParent(T, A) ==
    IF A = NULL THEN T
    ELSE IF T.n[A].left = NULL THEN T
    ELSE
        LET n0 == T.n
            B == n0[A].left
            n1 == [n0 EXCEPT ![A].left = n0[B].right]
            n2 == IF n1[B].right # NULL
                  THEN [n1 EXCEPT ![n1[B].right].parent = A]
                  ELSE n1
            n3 == [n2 EXCEPT ![B].right = A]
            n4 == [n3 EXCEPT ![B].parent = n3[A].parent]
            P == n4[B].parent
            r5 == IF P = NULL THEN B ELSE T.r
            n5 == IF P = NULL THEN n4
                  ELSE IF n4[P].left = A THEN [n4 EXCEPT ![P].left = B]
                  ELSE IF n4[P].right = A THEN [n4 EXCEPT ![P].right = B]
                  ELSE n4
        IN update(update([T EXCEPT !.n = n5, !.r = r5], A), B)

\* rightRotation that clears A's left child instead of handing it B's right child
rightRotationLosesInner(T, A) ==
    IF A = NULL THEN T
    ELSE IF T.n[A].left = NULL THEN T
    ELSE
        LET n0 == T.n
            B == n0[A].left
            n1 == [n0 EXCEPT ![A].left = NULL]
            n3 == [n1 EXCEPT ![B].right = A]
            n4 == [n3 EXCEPT ![B].parent = n3[A].parent]
            P == n4[B].parent
            r5 == IF P = NULL THEN B ELSE T.r
            n5 == IF P = NULL THEN n4
                  ELSE IF n4[P].left = A THEN [n4 EXCEPT ![P].left = B]
                  ELSE IF n4[P].right = A THEN [n4 EXCEPT ![P].right = B]
                  ELSE n4
            n6 == [n5 EXCEPT ![A].parent = B]
        IN update(update([T EXCEPT !.n = n6, !.r = r5], A), B)

rightRotation(T, A) ==
    IF A = NULL THEN Logged(T, RotateEvent(A, FALSE))
    ELSE IF T.n[A].left = NULL THEN Logged(T, RotateEvent(A, FALSE))
    ELSE
        LET n0 == T.n
            B == n0[A].left
            n1 == [n0 EXCEPT ![A].left = n0[B].right]
            n2 == IF n1[B].right # NULL
                  THEN [n1 EXCEPT ![n1[B].right].parent = A]
                  ELSE n1
            n3 == [n2 EXCEPT ![B].right = A]
            n4 == [n3 EXCEPT ![B].parent = n3[A].parent]
            P == n4[B].parent
            r5 == IF P = NULL THEN B ELSE T.r
            n5 == IF P = NULL THEN n4
                  ELSE IF n4[P].left = A THEN [n4 EXCEPT ![P].left = B]
                  ELSE IF n4[P].right = A THEN [n4 EXCEPT ![P].right = B]
                  ELSE n4
            n6 == [n5 EXCEPT ![A].parent = B]
        IN update(update(Logged([T EXCEPT !.n = n6, !.r = r5], RotateEvent(A, TRUE)), A), B)

\* leftRotation without the two closing calls of update
leftRotationNoUpdate(T, A) ==
    IF A = NULL THEN T
    ELSE IF T.n[A].right = NULL THEN T
    ELSE
        LET n0 == T.n
            B == n0[A].right
            n1 == [n0 EXCEPT ![A].right = n0[B].left]
            n2 == IF n1[B].left # NULL
                  THEN [n1 EXCEPT ![n1[B].left].parent = A]
                  ELSE n1
            n3 == [n2 EXCEPT ![B].left = A]
            n4 == [n3 EXCEPT ![B].parent = n3[A].parent]
            P == n4[B].parent
            r5 == IF P = NULL THEN B ELSE T.r
            n5 == IF P = NULL THEN n4
                  ELSE IF n4[P].left = A THEN [n4 EXCEPT ![P].left = B]
                  ELSE IF n4[P].right = A THEN [n4 EXCEPT ![P].right = B]
                  ELSE n4
            n6 == [n5 EXCEPT ![A].parent = B]
        IN [T EXCEPT !.n = n6, !.r = r5]

leftRotation(T, A) ==
    IF A = NULL THEN Logged(T, RotateEvent(A, FALSE))
    ELSE IF T.n[A].right = NULL THEN Logged(T, RotateEvent(A, FALSE))
    ELSE
        LET n0 == T.n
            B == n0[A].right
            n1 == [n0 EXCEPT ![A].right = n0[B].left]
            n2 == IF n1[B].left # NULL
                  THEN [n1 EXCEPT ![n1[B].left].parent = A]
                  ELSE n1
            n3 == [n2 EXCEPT ![B].left = A]
            n4 == [n3 EXCEPT ![B].parent = n3[A].parent]
            P == n4[B].parent
            r5 == IF P = NULL THEN B ELSE T.r
            n5 == IF P = NULL THEN n4
                  ELSE IF n4[P].left = A THEN [n4 EXCEPT ![P].left = B]
                  ELSE IF n4[P].right = A THEN [n4 EXCEPT ![P].right = B]
                  ELSE n4
            n6 == [n5 EXCEPT ![A].parent = B]
        IN update(update(Logged([T EXCEPT !.n = n6, !.r = r5], RotateEvent(A, TRUE)), A), B)

\* ------------------------------------------------------------------ balance

\* balance without the left-right and right-left cases
balanceSingleOnly(T, node) ==
    IF node = NULL THEN T
    ELSE IF T.n[node].balanceFactor = -2 THEN rightRotation(T, node)
    ELSE IF T.n[node].balanceFactor = 2 THEN leftRotation(T, node)
    ELSE T

\* balance without the right-heavy case
balanceLeftHeavyOnly(T, node) ==
    IF node = NULL THEN T
    ELSE IF T.n[node].balanceFactor = -2 THEN
        IF T.n[node].left = NULL THEN [T EXCEPT !.ub = TRUE]
        ELSE IF T.n[T.n[node].left].balanceFactor = 1
             THEN rightRotation(leftRotation(T, T.n[node].left), node)
             ELSE rightRotation(T, node)
    ELSE T

\* balance that turns the node the wrong way
balanceWrongDirection(T, node) ==
    IF node = NULL THEN T
    ELSE IF T.n[node].balanceFactor = -2 THEN
        IF T.n[node].left = NULL THEN [T EXCEPT !.ub = TRUE]
        ELSE IF T.n[T.n[node].left].balanceFactor = 1
             THEN leftRotation(leftRotation(T, T.n[node].left), node)
             ELSE leftRotation(T, node)
    ELSE IF T.n[node].balanceFactor = 2 THEN
        IF T.n[node].right = NULL THEN [T EXCEPT !.ub = TRUE]
        ELSE IF T.n[T.n[node].right].balanceFactor = -1
             THEN rightRotation(rightRotation(T, T.n[node].right), node)
             ELSE rightRotation(T, node)
    ELSE T

\* node->left / node->right is read without a null test: reading through a
\* null pointer is recorded in ub and the call goes no further
balance(T, node) ==
    IF node = NULL THEN T
    ELSE IF T.n[node].balanceFactor = -2 THEN
        IF T.n[node].left = NULL THEN [T EXCEPT !.ub = TRUE]
        ELSE IF T.n[T.n[node].left].balanceFactor = 1
             THEN rightRotation(leftRotation(T, T.n[node].left), node)
             ELSE rightRotation(T, node)
    ELSE IF T.n[node].balanceFactor = 2 THEN
        IF T.n[node].right = NULL THEN [T EXCEPT !.ub = TRUE]
        ELSE IF T.n[T.n[node].right].balanceFactor = -1
             THEN leftRotation(rightRotation(T, T.n[node].right), node)
             ELSE leftRotation(T, node)
    ELSE T

\* ------------------------------------------------------------------ stacks

\* a std::stack<Node*> is a sequence whose last element is the top
Top(stack) == stack[Len(stack)]
Pop(stack) == SubSeq(stack, 1, Len(stack) - 1)

RECURSIVE stackNodesLoop(_, _, _)
stackNodesLoop(T, stack, value) ==
    LET currentNode == Top(stack) IN
    IF currentNode = NULL THEN stack
    ELSE IF T.n[currentNode].value > value
         THEN stackNodesLoop(T, Append(stack, T.n[currentNode].left), value)
    ELSE IF T.n[currentNode].value < value
         THEN stackNodesLoop(T, Append(stack, T.n[currentNode].right), value)
    ELSE stack

stackNodes(T, value) == stackNodesLoop(T, <<T.r>>, value)

\* unstackNodes that stops after the top of the stack
unstackNodesTopOnly(T, stack) ==
    IF stack = <<>> \/ T.ub THEN T
    ELSE
        LET currentNode == Top(stack) IN
        IF currentNode = NULL THEN T
        ELSE balance(update(T, currentNode), currentNode)

\* what unstackNodes did to currentNode: T before, T1 updated, T2 balanced
VisitEvent(T, T1, T2, currentNode) ==
    LET top == IF T2.n[currentNode].parent # T1.n[currentNode].parent
               THEN T2.n[currentNode].parent
               ELSE currentNode
    IN Event("visit", currentNode, T.n[currentNode].height,
             T1.n[currentNode].balanceFactor, T2.n[top].height,
             top, T2.n[top].parent, TRUE)

\* lines 260-262: T1 is the tree after update(currentNode), T2 the tree after
\* balance(currentNode); the visit is recorded
VisitLogged(T, T1, T2, currentNode) ==
    Logged(T2, VisitEvent(T, T1, T2, currentNode))

Visit(T, T1, currentNode) ==
    VisitLogged(T, T1, balance(T1, currentNode), currentNode)

RECURSIVE unstackNodes(_, _)
unstackNodes(T, stack) ==
    IF stack = <<>> \/ T.ub THEN T
    ELSE
        LET currentNode == Top(stack) IN
        IF currentNode = NULL THEN unstackNodes(T, Pop(stack))
        ELSE
            unstackNodes(Visit(T, update(T, currentNode), currentNode), Pop(stack))

\* ------------------------------------------------------------------ find

RECURSIVE findLoop(_, _, _)
findLoop(T, currentNode, value) ==
    IF currentNode = NULL THEN NULL
    ELSE IF T.n[currentNode].value > value
         THEN findLoop(T, T.n[currentNode].left, value)
    ELSE IF T.n[currentNode].value < value
         THEN findLoop(T, T.n[currentNode].right, value)
    ELSE currentNode

\* find that gives up below the root
findRootOnly(T, value) ==
    IF T.r # NULL /\ T.n[T.r].value = value THEN T.r ELSE NULL

\* T* find(const T&): the address of the node whose value is returned, or NULL
find(T, value) == findLoop(T, T.r, value)

RECURSIVE findConstLoop(_, _, _)
findConstLoop(T, currentNode, value) ==
    IF currentNode = NULL THEN NULL
    ELSE IF T.n[currentNode].value > value
         THEN findConstLoop(T, T.n[currentNode].left, value)
    ELSE IF T.n[currentNode].value < value
         THEN findConstLoop(T, T.n[currentNode].right, value)
    ELSE currentNode

\* the const find that gives up below the root
findConstRootOnly(T, value) ==
    IF T.r # NULL /\ T.n[T.r].value = value THEN T.r ELSE NULL

\* const T* find(const T&) const
findConst(T, value) == findConstLoop(T, T.r, value)

\* bool empty() const
empty(T) == (T.r = NULL /\ T.size = 0)

\* std::size_t size() const
size(T) == T.size

\* T* root()
root(T) == IF T.r = NULL THEN NULL ELSE T.r

\* const T* root() const
rootConst(T) == IF T.r = NULL THEN NULL ELSE T.r

\* ------------------------------------------------------------------ insert

\* ++m_size and --m_size on the unsigned counter
IncSize(s) == (s + 1) % SizeModulus
DecSize(s) == (s + SizeModulus - 1) % SizeModulus

\* attach with the two sides exchanged
attachSwapped(T, parentNode, newValue) ==
    LET a == NewAddr(T.n)
        n1 == New(T.n, newValue)
    IN IF T.n[parentNode].value > newValue
       THEN [T EXCEPT !.n = [n1 EXCEPT ![parentNode].right = a, ![a].parent = parentNode]]
       ELSE IF T.n[parentNode].value < newValue
       THEN [T EXCEPT !.n = [n1 EXCEPT ![parentNode].left = a, ![a].parent = parentNode]]
       ELSE T

\* lines 117-127: the new node becomes parentNode's left or right child
attach(T, parentNode, newValue) ==
    LET a == NewAddr(T.n)
        n1 == New(T.n, newValue)
    IN IF T.n[parentNode].value > newValue
       THEN [T EXCEPT !.n = [n1 EXCEPT ![parentNode].left = a, ![a].parent = parentNode]]
       ELSE IF T.n[parentNode].value < newValue
       THEN [T EXCEPT !.n = [n1 EXCEPT ![parentNode].right = a, ![a].parent = parentNode]]
       ELSE T

\* lines 103-107: the empty tree condition
insertEmpty(T, newValue) ==
    [T EXCEPT !.n = New(T.n, newValue), !.r = NewAddr(T.n)]

\* the existing value reported as a successful insertion
insertExistingAsNew(T, stack) ==
    [t |-> [T EXCEPT !.size = IncSize(T.size)], ret |-> RetNullptr]

\* lines 111-112: the value already exists, a pointer to it is returned
insertExisting(T, stack) ==
    [t |-> T, ret |-> RetPtr(Top(stack))]

\* T* insert(const T&): the tree afterwards and the pointer returned
insert(T, newValue) ==
    IF T.r = NULL
    THEN [t |-> insertEmpty(T, newValue), ret |-> RetNullptr]
    ELSE
        LET stack == stackNodes(T, newValue) IN
        IF Top(stack) # NULL
        THEN insertExisting(T, stack)
        ELSE
            LET stack1 == Pop(stack)
                parentNode == Top(stack1)
                T1 == unstackNodes(attach(T, parentNode, newValue), stack1)
            IN [t |-> [T1 EXCEPT !.size = IncSize(T1.size)], ret |-> RetNullptr]

\* ------------------------------------------------------------------ remove

\* the ancestor chain of node, root first, node on top
RECURSIVE pathTo(_, _)
pathTo(T, node) ==
    IF node = NULL THEN <<>> ELSE Append(pathTo(T, T.n[node].parent), node)

\* the slot that points to node (its parent's left or right, or m_root) takes child
replaceInParent(T, node, child) ==
    LET P == T.n[node].parent IN
    IF P = NULL THEN [T EXCEPT !.r = child]
    ELSE IF T.n[P].left = node THEN [T EXCEPT !.n[P].left = child]
    ELSE [T EXCEPT !.n[P].right = child]

\* a leaf is detached from its parent's slot (or the root cleared) and released;
\* the rebalance starts at its former parent
leafRemove(T, node) ==
    LET chain == pathTo(T, T.n[node].parent)
        T1 == replaceInParent(T, node, NULL)
    IN unstackNodes([T1 EXCEPT !.n = Delete(T1.n, node)], chain)

\* the single child is spliced into the removed node's position; the rebalance
\* starts at the spliced child's new parent
oneSubtreeRemove(T, node) ==
    LET chain == pathTo(T, T.n[node].parent)
        child == IF T.n[node].left # NULL THEN T.n[node].left ELSE T.n[node].right
        T1 == replaceInParent(T, node, child)
        T2 == [T1 EXCEPT !.n[child].parent = T.n[node].parent]
    IN unstackNodes([T2 EXCEPT !.n = Delete(T2.n, node)], chain)

RECURSIVE rightmost(_, _)
rightmost(T, node) ==
    IF T.n[node].right = NULL THEN node ELSE rightmost(T, T.n[node].right)

RECURSIVE leftmost(_, _)
leftmost(T, node) ==
    IF T.n[node].left = NULL THEN node ELSE leftmost(T, T.n[node].left)

\* the in-order predecessor (or successor) of a node with two subtrees
replacement(T, node) ==
    IF usePredecessor THEN rightmost(T, T.n[node].left)
    ELSE leftmost(T, T.n[node].right)

\* the replacement's value is copied into node, then the replacement, which has
\* at most one child, is removed as a leaf or a one-subtree node
twoSubtreeRemove(T, node) ==
    LET y == replacement(T, node)
        T1 == Logged([T EXCEPT !.n[node].value = T.n[y].value],
                     Event("copy", node, T.n[node].value, 0, T.n[y].value, y,
                           T.n[node].parent, TRUE))
    IN IF T1.n[y].left = NULL /\ T1.n[y].right = NULL
       THEN leafRemove(T1, y)
       ELSE oneSubtreeRemove(T1, y)

\* the case split that takes a node with two subtrees for one with one
removeNodeTwoAsOne(T, removingNode) ==
    IF T.n[removingNode].left = NULL /\ T.n[removingNode].right = NULL
    THEN leafRemove(T, removingNode)
    ELSE oneSubtreeRemove(T, removingNode)

\* lines 148-155: the three-way case split
removeNode(T, removingNode) ==
    IF T.n[removingNode].left = NULL /\ T.n[removingNode].right = NULL
    THEN leafRemove(T, removingNode)
    ELSE IF T.n[removingNode].left = NULL \/ T.n[removingNode].right = NULL
    THEN oneSubtreeRemove(T, removingNode)
    ELSE twoSubtreeRemove(T, removingNode)

\* the missing value passed over in silence, the size decremented all the same
removeMissingSilent(T) ==
    [t |-> [T EXCEPT !.size = DecSize(T.size)], ret |-> RetValue(0)]

\* lines 141-143: the value was not found, std::runtime_error is thrown
removeMissing(T) ==
    [t |-> T, ret |-> RetThrow]

\* T remove(const T&): the tree afterwards and the value returned, or the throw
remove(T, value) ==
    LET stack == stackNodes(T, value)
        removingNode == Top(stack)
    IN IF removingNode = NULL
       THEN removeMissing(T)
       ELSE
           LET nodeValue == T.n[removingNode].value
               T1 == removeNode(T, removingNode)
           IN [t |-> [T1 EXCEPT !.size = DecSize(T1.size)], ret |-> RetValue(nodeValue)]

\* ------------------------------------------------------------------ destructor

\* the addresses in a queue or in the list of released nodes
Range(seq) == {seq[i] : i \in 1..Len(seq)}

\* the destructor that forgets to queue the right child
RECURSIVE destructorLeftOnlyLoop(_, _, _)
destructorLeftOnlyLoop(T, queue, released) ==
    IF queue = <<>>
    THEN [done |-> TRUE, released |-> released, readAfterRelease |-> FALSE]
    ELSE
        LET current == Head(queue) IN
        IF current \in Range(released)
        THEN [done |-> TRUE, released |-> released, readAfterRelease |-> TRUE]
        ELSE
            LET q1 == IF T.n[current].left # NULL
                      THEN Append(queue, T.n[current].left)
                      ELSE queue
            IN destructorLeftOnlyLoop(T, Tail(q1), Append(released, current))

destructorLeftOnly(T) ==
    IF T.r = NULL
    THEN [done |-> TRUE, released |-> <<>>, readAfterRelease |-> FALSE]
    ELSE destructorLeftOnlyLoop(T, <<T.r>>, <<>>)

\* lines 85-97: the loop over the queue; released lists the nodes deleted so
\* far.  current->left is read before current is deleted; were current a
\* node already deleted, that read (and the second delete) would be undefined:
\* it is recorded in readAfterRelease and the loop goes no further
RECURSIVE destructorLoop(_, _, _)
destructorLoop(T, queue, released) ==
    IF queue = <<>>
    THEN [done |-> TRUE, released |-> released, readAfterRelease |-> FALSE]
    ELSE
        LET current == Head(queue) IN
        IF current \in Range(released)
        THEN [done |-> TRUE, released |-> released, readAfterRelease |-> TRUE]
        ELSE
            LET q1 == IF T.n[current].left # NULL
                      THEN Append(queue, T.n[current].left)
                      ELSE queue
                q2 == IF T.n[current].right # NULL
                      THEN Append(q1, T.n[current].right)
                      ELSE q1
            IN destructorLoop(T, Tail(q2), Append(released, current))

\* ~AVLTree()
destructor(T) ==
    IF T.r = NULL
    THEN [done |-> TRUE, released |-> <<>>, readAfterRelease |-> FALSE]
    ELSE destructorLoop(T, <<T.r>>, <<>>)

\* ------------------------------------------------------------------ the object

Tree == [n |-> nodes, r |-> m_root, ub |-> ub, size |-> m_size, walk |-> <<>>]

EmptyHeap == [a \in {} |-> Node(0)]

\* the destructor has not run
NotDestroyed == [done |-> FALSE, released |-> <<>>, readAfterRelease |-> FALSE]

\* AVLTree(): m_size 0, m_root null
Constructed ==
    /\ nodes = EmptyHeap
    /\ m_root = NULL
    /\ m_size = 0
    /\ ret = RetNone
    /\ usePredecessor \in BOOLEAN
    /\ abs = {}
    /\ ub = FALSE
    /\ walk = <<>>
    /\ dtor = NotDestroyed

Init ==
    /\ Constructed
    /\ observing = FALSE

\* the object after a call that left the tree T and returned r
Becomes(T, r) ==
    /\ ~dtor.done
    /\ nodes' = T.n
    /\ m_root' = T.r
    /\ m_size' = T.size
    /\ ub' = T.ub
    /\ ret' = r
    /\ walk' = IF observing THEN T.walk ELSE <<>>
    /\ UNCHANGED <<usePredecessor, observing, dtor>>

\* by how much m_size falls short of the number of nodes, modulo 2^SizeWidth
Shortfall == (Cardinality(DOMAIN nodes) + SizeModulus - m_size) % SizeModulus

Insert(newValue) ==
    /\ ~ub
    /\ abs' = abs \cup {newValue}
    /\ m_root = NULL => Shortfall < MaxFills
    /\ LET res == insert(Tree, newValue) IN Becomes(res.t, res.ret)

Remove(value) ==
    /\ ~ub
    /\ abs' = abs \ {value}
    /\ LET res == remove(Tree, value) IN Becomes(res.t, res.ret)

Find(value) ==
    /\ ~ub
    /\ UNCHANGED abs
    /\ Becomes(Tree, RetPtr(find(Tree, value)))

FindConst(value) ==
    /\ ~ub
    /\ UNCHANGED abs
    /\ Becomes(Tree, RetPtr(findConst(Tree, value)))

Root ==
    /\ ~ub
    /\ UNCHANGED abs
    /\ Becomes(Tree, RetPtr(root(Tree)))

RootConst ==
    /\ ~ub
    /\ UNCHANGED abs
    /\ Becomes(Tree, RetPtr(rootConst(Tree)))

Size ==
    /\ ~ub
    /\ UNCHANGED abs
    /\ Becomes(Tree, RetSize(size(Tree)))

Empty ==
    /\ ~ub
    /\ UNCHANGED abs
    /\ Becomes(Tree, RetBool(empty(Tree)))

Next ==
    \/ \E v \in Values : Insert(v)
    \/ \E v \in Values : Remove(v)
    \/ \E v \in Values : Find(v)
    \/ \E v \in Values : FindConst(v)
    \/ Root
    \/ RootConst
    \/ Size
    \/ Empty

Spec == Init /\ [][Next]_vars

\* the values stored in the tree
StoredValues == {nodes[a].value : a \in DOMAIN nodes}

\* ascending inserts only: each value inserted is greater than every stored value
InsertAscending(newValue) ==
    /\ \A w \in StoredValues : w < newValue
    /\ Insert(newValue)

NextAsc == \E v \in ScenarioValues : InsertAscending(v)

SpecAsc == Init /\ [][NextAsc]_vars

\* the same object with the walk of every call kept
InitWalk ==
    /\ Constructed
    /\ observing = TRUE

NextWalk ==
    \/ \E v \in Values : Insert(v)
    \/ \E v \in Values : Remove(v)

SpecWalk == InitWalk /\ [][NextWalk]_vars

\* inserts only, of one value more than Values holds, with the walk kept
InsertValues == {10 * i : i \in 1..(MaxVal + 1)}

NextInsertWalk == \E v \in InsertValues : Insert(v)

SpecInsertWalk == InitWalk /\ [][NextInsertWalk]_vars

\* ~AVLTree(): the nodes it deleted leave the heap; the members are left as
\* they were
Destroy ==
    /\ ~ub
    /\ ~dtor.done
    /\ dtor' = destructor(Tree)
    /\ nodes' = [a \in DOMAIN nodes \ Range(dtor'.released) |-> nodes[a]]
    /\ UNCHANGED <<m_root, m_size, ret, usePredecessor, abs, ub, observing, walk>>

NextTeardown ==
    \/ \E v \in Values : Insert(v)
    \/ \E v \in Values : Remove(v)
    \/ Destroy

SpecTeardown == Init /\ [][NextTeardown]_vars

\* ------------------------------------------------------------------ properties

\* the addresses of the subtree rooted at node
RECURSIVE Subtree(_)
Subtree(node) ==
    IF node = NULL THEN {}
    ELSE {node} \cup Subtree(nodes[node].left) \cup Subtree(nodes[node].right)

\* the nodes of the tree
Reach == Subtree(m_root)

\* the values of the subtree rooted at node, in order
RECURSIVE InOrder(_)
InOrder(node) ==
    IF node = NULL THEN <<>>
    ELSE InOrder(nodes[node].left) \o <<nodes[node].value>> \o InOrder(nodes[node].right)

\* the height of the subtree rooted at node, -1 for an absent subtree
RECURSIVE Height(_)
Height(node) ==
    IF node = NULL THEN -1
    ELSE LET l == Height(nodes[node].left)
             r == Height(nodes[node].right)
         IN (IF l > r THEN l ELSE r) + 1

\* the node that holds value v (values are compared over the whole heap)
Holder(v) == CHOOSE a \in DOMAIN nodes : nodes[a].value = v

\* C1: after every public operation the tree is in binary-search-tree order:
\* the left subtree of every node holds smaller values, the right subtree
\* greater ones, and the in-order traversal is strictly increasing.
BSTOrder ==
    /\ \A a \in Reach :
        /\ \A b \in Subtree(nodes[a].left) : nodes[b].value < nodes[a].value
        /\ \A b \in Subtree(nodes[a].right) : nodes[b].value > nodes[a].value
    /\ LET io == InOrder(m_root)
       IN \A i \in 1..(Len(io) - 1) : io[i] < io[i + 1]

\* a removal with a two-level tree left behind
BSTOrderWitness ==
    /\ ret.kind = "value"
    /\ Cardinality(Reach) = 3
    /\ Height(m_root) = 1

\* C2: after every public operation every node's balance factor, the height of
\* its right subtree minus that of its left, an absent subtree counting -1, is
\* -1, 0 or 1 (as is the stored one).
AVLBalance ==
    \A a \in Reach :
        /\ Height(nodes[a].right) - Height(nodes[a].left) \in {-1, 0, 1}
        /\ nodes[a].balanceFactor \in {-1, 0, 1}

\* a tree of height 2 whose root leans to one side
AVLBalanceWitness ==
    /\ m_root # NULL
    /\ Height(m_root) = 2
    /\ Height(nodes[m_root].right) - Height(nodes[m_root].left) = -1

\* C3: size() is the number of nodes of the tree.
SizeIsNodeCount ==
    size(Tree) = Cardinality(Reach)

\* C4: empty() holds exactly when size() is 0 and exactly when the root is absent.
EmptyIffSizeZero ==
    /\ empty(Tree) <=> (size(Tree) = 0)
    /\ empty(Tree) <=> (root(Tree) = NULL)

\* find(v) returns a pointer to a stored value equal to v
Found(v) ==
    LET x == find(Tree, v) IN x # NULL /\ x \in DOMAIN nodes /\ nodes[x].value = v

\* C5: find(v) returns a stored value equal to v exactly when v is in the
\* abstract set driven by the same inserts and removes; after a successful
\* remove(v), find(v) returns absent and another remove(v) throws.
FindIsMembership ==
    /\ [](\A v \in Values : Found(v) <=> v \in abs)
    /\ [][\A v \in Values :
            (ret'.kind = "value" /\ Remove(v)) =>
                /\ find(Tree', v) = NULL
                /\ remove(Tree', v).ret = RetThrow]_vars

\* a value found below the root, another one removed just before
FindIsMembershipWitness ==
    /\ ret.kind = "value"
    /\ \E v \in Values : Found(v) /\ find(Tree, v) # m_root
    /\ ~Found(ret.val)

\* C6: inserting a stored value changes no node, not the root and not the size
\* and returns a pointer to the stored value; insert returns the null pointer
\* ("inserted") exactly when the value was not stored.
InsertExistingIsNoOp ==
    [][\A v \in Values :
        Insert(v) =>
            IF v \in StoredValues
            THEN /\ nodes' = nodes
                 /\ m_root' = m_root
                 /\ m_size' = m_size
                 /\ ret' = RetPtr(Holder(v))
            ELSE ret' = RetNullptr]_vars

\* insert has returned a pointer to a value stored below the root
InsertExistingWitness ==
    /\ ret.kind = "ptr"
    /\ ret.val # m_root
    /\ Cardinality(Reach) >= 3

\* C7: remove(v) of a value that is not stored throws and leaves the nodes, the
\* root and the size as they were.
RemoveMissingThrows ==
    [][\A v \in Values :
        (Remove(v) /\ v \notin StoredValues) =>
            /\ ret' = RetThrow
            /\ nodes' = nodes
            /\ m_root' = m_root
            /\ m_size' = m_size]_vars

\* remove has thrown on a tree that is not empty
RemoveMissingWitness ==
    /\ ret = RetThrow
    /\ Cardinality(Reach) >= 2

\* C8: remove(v) of a stored value returns v, makes size() one less and takes
\* exactly v out of the stored values.
RemoveStored ==
    [][\A v \in Values :
        (Remove(v) /\ v \in StoredValues) =>
            /\ ret' = RetValue(v)
            /\ size(Tree') = size(Tree) - 1
            /\ StoredValues' = StoredValues \ {v}]_vars

\* C9: find, the const find, root, the const root, size and empty change no
\* node, not the root and not the size, and the two finds return the same.
LookupsDoNotMutate ==
    /\ [](\A v \in Values : find(Tree, v) = findConst(Tree, v))
    /\ [][((\E v \in Values : Find(v) \/ FindConst(v))
            \/ Root \/ RootConst \/ Size \/ Empty)
          => UNCHANGED <<nodes, m_root, m_size>>]_vars

\* a lookup has found a value below the root
LookupsWitness ==
    /\ ret.kind = "ptr"
    /\ ret.val # m_root
    /\ Height(m_root) = 2

\* C10: 10, 20 and 30 inserted in that order into the empty tree: the root
\* holds 20, its left child 10, its right child 30, all balance factors 0.
InsertTenTwentyThirty ==
    StoredValues = {10, 20, 30} =>
        /\ m_root # NULL
        /\ nodes[m_root].value = 20
        /\ nodes[m_root].left # NULL
        /\ nodes[nodes[m_root].left].value = 10
        /\ nodes[m_root].right # NULL
        /\ nodes[nodes[m_root].right].value = 30
        /\ \A a \in DOMAIN nodes : nodes[a].balanceFactor = 0
        /\ Cardinality(DOMAIN nodes) = 3

\* the three values are in
InsertTenTwentyThirtyWitness ==
    /\ StoredValues = {10, 20, 30}
    /\ ret = RetNullptr

\* the tree below node as nested triples <<left, value, right>>
RECURSIVE Shape(_)
Shape(node) ==
    IF node = NULL THEN <<>>
    ELSE <<Shape(nodes[node].left), nodes[node].value, Shape(nodes[node].right)>>

Leaf(v) == <<<<>>, v, <<>>>>

\* C11: 1 to 7 inserted in ascending order into the empty tree give the perfectly
\* balanced tree of 7 nodes and height 2: root 4, children 2 and 6, leaves 1, 3, 5, 7.
InsertOneToSeven ==
    StoredValues = 1..7 =>
        /\ Shape(m_root) = << <<Leaf(1), 2, Leaf(3)>>, 4, <<Leaf(5), 6, Leaf(7)>> >>
        /\ Cardinality(DOMAIN nodes) = 7
        /\ nodes[m_root].height = 2
        /\ Height(m_root) = 2

\* the seven values are in
InsertOneToSevenWitness ==
    /\ StoredValues = 1..7
    /\ Cardinality(Reach) = 7
    /\ ret = RetNullptr

\* the stored height of a child, -1 for an absent child
StoredHeight(node) == IF node = NULL THEN -1 ELSE nodes[node].height

\* C12: after every public operation the stored height of every node is the
\* greater of its children's stored heights (-1 for an absent child) plus 1 and
\* its stored balanceFactor is the right one minus the left one.
StoredHeightsConsistent ==
    \A a \in DOMAIN nodes :
        LET l == StoredHeight(nodes[a].left)
            r == StoredHeight(nodes[a].right)
        IN /\ nodes[a].height = (IF l > r THEN l ELSE r) + 1
           /\ nodes[a].balanceFactor = r - l

\* an insertion has left a tree of height 2 whose root leans to the right
StoredHeightsWitness ==
    /\ ret = RetNullptr
    /\ m_root # NULL
    /\ nodes[m_root].height = 2
    /\ nodes[m_root].balanceFactor = 1

RECURSIVE InOrderIn(_, _)
InOrderIn(T, node) ==
    IF node = NULL THEN <<>>
    ELSE InOrderIn(T, T.n[node].left) \o <<T.n[node].value>> \o InOrderIn(T, T.n[node].right)

\* T1 is T0 after a rotation of A whose pivot child is B and whose inner
\* grandchild is inner: same nodes, same values, same order, and no node but
\* A, B, inner and A's former parent (or the root pointer) is touched
RotationFrame(T0, T1, A, B, inner) ==
    IF B = NULL THEN T1.n = T0.n /\ T1.r = T0.r
    ELSE
        /\ DOMAIN T1.n = DOMAIN T0.n
        /\ \A x \in DOMAIN T0.n : T1.n[x].value = T0.n[x].value
        /\ InOrderIn(T1, T1.r) = InOrderIn(T0, T0.r)
        /\ \A x \in DOMAIN T0.n \ {A, B, inner, T0.n[A].parent} : T1.n[x] = T0.n[x]
        /\ T0.n[A].parent # NULL => T1.r = T0.r
        /\ T1.n[B].parent = T0.n[A].parent
        /\ T1.n[A].parent = B

\* C14: a left or a right rotation of any node of the tree makes and releases no
\* node, keeps every value and the in-order sequence, and changes only the
\* links of the node, its pivot child, the pivot's inner grandchild and the
\* node's former parent (or the root pointer).
RotationsKeepOrder ==
    \A A \in DOMAIN nodes :
        /\ LET B == nodes[A].left
           IN RotationFrame(Tree, rightRotation(Tree, A), A, B,
                            IF B = NULL THEN NULL ELSE nodes[B].right)
        /\ LET B == nodes[A].right
           IN RotationFrame(Tree, leftRotation(Tree, A), A, B,
                            IF B = NULL THEN NULL ELSE nodes[B].left)

\* a node with a parent whose left child has a right child: a right rotation
\* of it moves all four links
RotationsWitness ==
    \E A \in DOMAIN nodes :
        /\ nodes[A].parent # NULL
        /\ nodes[A].left # NULL
        /\ nodes[nodes[A].left].right # NULL
        /\ rightRotation(Tree, A).n[nodes[A].parent] # nodes[nodes[A].parent]

\* C18: remove decrements m_size only when m_size is at least 1, so the
\* unsigned counter never wraps.
SizeNeverWraps ==
    [][\A v \in Values : (ret'.kind = "value" /\ Remove(v)) => m_size >= 1]_vars

\* the events of one kind in the walk of the last call
WalkOf(kind) == {i \in 1..Len(walk) : walk[i].ev = kind}

\* the visits that found a balance factor of -2 or 2
Rebalanced == {i \in WalkOf("visit") : walk[i].bf \in {-2, 2}}

\* C17: the destructor comes to an end having released every node of the tree
\* exactly once, and reads no node's links after releasing it.
TeardownReleasesAll ==
    [][Destroy =>
        /\ dtor'.done
        /\ Range(dtor'.released) = DOMAIN nodes
        /\ Len(dtor'.released) = Cardinality(DOMAIN nodes)
        /\ ~dtor'.readAfterRelease
        /\ DOMAIN nodes' = {}]_vars

\* a tree of height 2 has been torn down
TeardownWitness ==
    /\ dtor.done
    /\ Len(dtor.released) = 4
    /\ DOMAIN nodes = {}

TwoChildren(a) == nodes[a].left # NULL /\ nodes[a].right # NULL

\* the stored value next below v (next above it, by the other convention)
Neighbour(v) ==
    IF usePredecessor
    THEN CHOOSE w \in StoredValues : w < v /\ \A u \in StoredValues : u < v => u <= w
    ELSE CHOOSE w \in StoredValues : w > v /\ \A u \in StoredValues : u > v => u >= w

\* C15: removing a value whose node has two children puts the value's in-order
\* predecessor (or successor, the same choice every time) into that node and
\* releases the predecessor's (successor's) node, which has at most one child;
\* the tree is then in BST order and AVL-balanced, the root included.
TwoSubtreeRemoval ==
    [][\A v \in Values :
        (v \in StoredValues /\ TwoChildren(Holder(v)) /\ Remove(v)) =>
            LET h == Holder(v)
                y == Holder(Neighbour(v))
            IN /\ nodes[y].left = NULL \/ nodes[y].right = NULL
               /\ DOMAIN nodes' = DOMAIN nodes \ {y}
               /\ nodes'[h].value = Neighbour(v)
               /\ StoredValues' = StoredValues \ {v}
               /\ ret' = RetValue(v)
               /\ BSTOrder'
               /\ AVLBalance'
               /\ usePredecessor' = usePredecessor]_vars

\* the value held by the root, which had two children, has been removed
TwoSubtreeRemovalWitness ==
    /\ ret.kind = "value"
    /\ \E i \in WalkOf("copy") :
        /\ walk[i].topParent = NULL
        /\ walk[i].before = ret.val
        /\ walk[i].node \in DOMAIN nodes
        /\ walk[i].top \notin DOMAIN nodes

\* C16: every balance factor that update computes for a node of the ancestor
\* chain during the walk of an insert or a remove is between -2 and 2, and a
\* node found at -2 or 2 has been rotated.
WalkBalanceInRange ==
    \A i \in WalkOf("visit") :
        /\ walk[i].bf \in -2..2
        /\ walk[i].bf \in {-2, 2} =>
              \E j \in WalkOf("rotate") : j < i /\ walk[j].node = walk[i].node /\ walk[j].ok

\* a removal has found a node at -2 or 2
WalkBalanceWitness ==
    /\ ret.kind = "value"
    /\ Rebalanced # {}

\* C19: balance never reads through an absent child, and every rotation it asks
\* for is of a node that has the pivot child.
NoAbsentChild ==
    /\ ~ub
    /\ \A i \in WalkOf("rotate") : walk[i].ok /\ walk[i].node # NULL

\* a walk with a double rotation
NoAbsentChildWitness ==
    /\ ~ub
    /\ Cardinality(WalkOf("rotate")) = 2
    /\ \A i \in WalkOf("rotate") : walk[i].ok

\* C20: the insert of a new value rebalances at no more than one node of the
\* ancestor chain; every ancestor visited after that node ends with the height
\* it had before, and every node visited is the parent of the subtree visited
\* just before it, up to the root.
InsertRebalancesOnce ==
    ret = RetNullptr =>
        /\ Cardinality(Rebalanced) <= 1
        /\ \A i \in Rebalanced : \A j \in WalkOf("visit") :
              j > i => /\ walk[j].after = walk[j].before
                       /\ walk[j].top = walk[j].node
        /\ \A i \in WalkOf("visit") : \A j \in WalkOf("visit") :
              (i < j /\ \A k \in WalkOf("visit") : ~(i < k /\ k < j))
                  => walk[j].node = walk[i].topParent
        /\ \A i \in WalkOf("visit") :
              (\A k \in WalkOf("visit") : k <= i) => walk[i].topParent = NULL

\* an insert has rotated below the root and gone on to an ancestor
InsertRebalancesOnceWitness ==
    /\ ret = RetNullptr
    /\ \E i \in Rebalanced : \E j \in WalkOf("visit") : j > i

====
